---- MODULE Spec2Model ----
(***************************************************************************)
(* Model of src/server.py: the DatabaseManager CRUD methods over the       *)
(* SQLite table `users` and the five tool entry points that wrap them.     *)
(*                                                                         *)
(* Two specifications are given.  Spec is the single-caller program: each  *)
(* action is one complete tool call.  SpecConc runs two callers whose      *)
(* storage statements interleave, each on a connection of its own.         *)
(***************************************************************************)
EXTENDS Integers, Sequences, FiniteSets, TLC

\* ------------------------------------------------------------------ bounds
MaxId == 2          \* creates are explored while the next rowid is <= MaxId
MaxClock == 1       \* CURRENT_TIMESTAMP takes the values 0..MaxClock
MaxLeaked == 2      \* unclosed connections alive at the same time
MaxConcId == 2      \* as MaxId, for the two-caller specification

\* ------------------------------------------------------- program constants
DefaultLimit == 100
MaxLimit == 1000

\* ------------------------------------------------------------ Python values
\* A Python argument: None, a str (a sequence of one-character strings), an
\* int that fits SQLite's 64-bit INTEGER, or an int above 2^63-1 ("bigint").
NoneV == [kind |-> "none", s |-> <<>>, n |-> 0]
Str(x) == [kind |-> "str", s |-> x, n |-> 0]
IntV(i) == [kind |-> "int", s |-> <<>>, n |-> i]
BigInt == [kind |-> "bigint", s |-> <<>>, n |-> 0]

\* bool(x)
Truthy(x) ==
    \/ x.kind = "str" /\ x.s # <<>>
    \/ x.kind = "int" /\ x.n # 0
    \/ x.kind = "bigint"

\* isinstance(x, int)
IsInt(x) == x.kind \in {"int", "bigint"}

\* isinstance(x, str)
IsStr(x) == x.kind = "str"

\* x <= c for an int x and a small literal c
IntLe(x, c) == x.kind = "int" /\ x.n <= c

\* c in s
Contains(s, c) == \E i \in 1..Len(s) : s[i] = c

RECURSIVE LStrip(_)
LStrip(s) == IF s # <<>> /\ Head(s) = " " THEN LStrip(Tail(s)) ELSE s

RECURSIVE RStrip(_)
RStrip(s) ==
    IF s # <<>> /\ s[Len(s)] = " " THEN RStrip(SubSeq(s, 1, Len(s) - 1)) ELSE s

StripLeftOnly(s) == LStrip(s)

\* str.strip()
Strip(s) == RStrip(LStrip(s))

\* ------------------------------------------------------------- error texts
NameMsg == "Name must be a non-empty string"
EmailMsg == "Email must be a valid email address"
IdMsg == "User ID must be a positive integer"
FieldMsg == "At least one field (name or email) must be provided"
NotFoundMsg == "User with ID not found"
DuplicateMsg == "Email already exists"
LockedMsg == "database is locked"
OverflowMsg == "Python int too large to convert to SQLite INTEGER"
NoneTypeMsg == "'NoneType' object is not iterable"

\* --------------------------------------------------------- the users table
\* A row of `users`: id INTEGER PRIMARY KEY AUTOINCREMENT, name, email UNIQUE,
\* created_at DEFAULT CURRENT_TIMESTAMP.
Row(i, nm, em, ts) == [id |-> i, name |-> nm, email |-> em, created_at |-> ts]

SetMax(S) == IF S = {} THEN 0 ELSE CHOOSE m \in S : \A x \in S : x <= m

Ids(tbl) == {r.id : r \in tbl}

ReuseRowid(tbl, sq) == SetMax(Ids(tbl)) + 1

\* AUTOINCREMENT: one more than the largest rowid the table has ever held
\* (sqlite_sequence), whether or not that row still exists.
NextRowid(tbl, sq) == SetMax(Ids(tbl) \cup {sq}) + 1

\* UNIQUE(email), compared byte for byte (BINARY collation)
EmailTaken(tbl, em, self) == \E r \in tbl : r.email = em /\ r.id # self

\* SELECT * FROM users WHERE id = ?   (fetchone(): a set of at most one row)
SelectById(tbl, i) == {r \in tbl : r.id = i}

\* INSERT INTO users (name, email) VALUES (?, ?)
InsertRow(tbl, sq, nm, em, now) == tbl \cup {Row(NextRowid(tbl, sq), nm, em, now)}

UpdateAllRows(tbl, i, setName, nm, setEmail, em) ==
    {Row(r.id, IF setName THEN nm ELSE r.name,
               IF setEmail THEN em ELSE r.email, r.created_at) : r \in tbl}

\* UPDATE users SET <the supplied columns> WHERE id = ?
UpdateRow(tbl, i, setName, nm, setEmail, em) ==
    {IF r.id = i
       THEN Row(r.id, IF setName THEN nm ELSE r.name,
                      IF setEmail THEN em ELSE r.email, r.created_at)
       ELSE r : r \in tbl}

\* DELETE FROM users WHERE id = ?
DeleteRow(tbl, i) == {r \in tbl : r.id # i}

RECURSIVE OrderByIdDesc(_)
OrderByIdDesc(tbl) ==
    IF tbl = {} THEN <<>>
    ELSE LET top == CHOOSE r \in tbl : \A q \in tbl : q.id <= r.id
         IN <<top>> \o OrderByIdDesc(tbl \ {top})

Min2(a, b) == IF a <= b THEN a ELSE b

\* SELECT * FROM users ORDER BY id DESC LIMIT ? OFFSET ?
SelectPage(tbl, lim, off) ==
    LET all == OrderByIdDesc(tbl)
    IN SubSeq(all, off + 1, Min2(off + lim, Len(all)))

\* ------------------------------------------------- DatabaseManager methods
\* What one method call does, as a record: the exception it raises ("none"
\* when it returns), the returned dictionary, the table, sqlite_sequence and
\* write lock it leaves, the number of storage statements it handed to
\* cursor.execute, and whether it leaves its connection open (get_connection
\* was called and conn.close() was not reached).
Raised(e, m, tbl, sq, lk, n, lf) ==
    [exc |-> e, msg |-> m, data |-> <<>>, message |-> "", paged |-> FALSE,
     total |-> 0, limit |-> 0, offset |-> 0,
     table |-> tbl, seq |-> sq, lock |-> lk, stmts |-> n, leak |-> lf]

Returned(d, m, pg, tot, lim, off, tbl, sq, lk, n) ==
    [exc |-> "none", msg |-> "", data |-> d, message |-> m, paged |-> pg,
     total |-> tot, limit |-> lim, offset |-> off,
     table |-> tbl, seq |-> sq, lock |-> lk, stmts |-> n, leak |-> FALSE]

\* the id checks of read_user, update_user and delete_user
BadUserId(user_id) == ~IsInt(user_id) \/ IntLe(user_id, 0)

\* the name check of create_user (value already known to be truthy in update)
BadName(name) == ~Truthy(name) \/ ~IsStr(name) \/ Len(Strip(name.s)) = 0

\* the email check of create_user
BadEmail(email) == ~Truthy(email) \/ ~IsStr(email) \/ ~Contains(email.s, "@")

DbCreateUser(name, email, tbl, sq, lk, now) ==
    IF BadName(name) THEN Raised("ValueError", NameMsg, tbl, sq, lk, 0, FALSE)
    ELSE IF BadEmail(email)
      THEN Raised("ValueError", EmailMsg, tbl, sq, lk, 0, FALSE)
    ELSE IF lk # "free"
      THEN Raised("sqlite3.Error", LockedMsg, tbl, sq, lk, 1, TRUE)
    ELSE IF EmailTaken(tbl, Strip(email.s), 0)
      THEN Raised("ValueError", DuplicateMsg, tbl, sq, "orphan", 1, TRUE)
    ELSE LET user_id == NextRowid(tbl, sq)
             tbl2 == InsertRow(tbl, sq, Strip(name.s), Strip(email.s), now)
             rows == SelectById(tbl2, user_id)
         IN IF rows = {}
              THEN Raised("TypeError", NoneTypeMsg, tbl2, user_id, lk, 2, TRUE)
              ELSE Returned(<<CHOOSE r \in rows : TRUE>>,
                            "User created successfully", FALSE, 0, 0, 0,
                            tbl2, user_id, lk, 2)

DbReadUser(user_id, tbl, sq, lk) ==
    IF BadUserId(user_id) THEN Raised("ValueError", IdMsg, tbl, sq, lk, 0, FALSE)
    ELSE IF user_id.kind = "bigint"
      THEN Raised("OverflowError", OverflowMsg, tbl, sq, lk, 0, TRUE)
    ELSE LET rows == SelectById(tbl, user_id.n)
         IN IF rows = {}
              THEN Raised("ValueError", NotFoundMsg, tbl, sq, lk, 1, FALSE)
              ELSE Returned(<<CHOOSE r \in rows : TRUE>>, "", FALSE, 0, 0, 0,
                            tbl, sq, lk, 1)

\* limit after the first clamp of read_all_users
ClampLimit(limit) ==
    IF ~IsInt(limit) \/ IntLe(limit, 0) \/ ~IntLe(limit, MaxLimit)
      THEN DefaultLimit ELSE limit.n

\* offset after the second clamp (still a Python value: it may be a bigint)
ClampOffset(offset) ==
    IF ~IsInt(offset) \/ IntLe(offset, -1) THEN IntV(0) ELSE offset

DbReadAllUsers(limit, offset, tbl, sq, lk) ==
    LET lim == ClampLimit(limit)
        off == ClampOffset(offset)
    IN IF off.kind = "bigint"
         THEN Raised("OverflowError", OverflowMsg, tbl, sq, lk, 0, TRUE)
         ELSE Returned(SelectPage(tbl, lim, off.n), "", TRUE,
                       Cardinality(tbl), lim, off.n, tbl, sq, lk, 2)

DbUpdateUser(user_id, name, email, tbl, sq, lk) ==
    IF BadUserId(user_id) THEN Raised("ValueError", IdMsg, tbl, sq, lk, 0, FALSE)
    ELSE IF ~Truthy(name) /\ ~Truthy(email)
      THEN Raised("ValueError", FieldMsg, tbl, sq, lk, 0, FALSE)
    ELSE IF user_id.kind = "bigint"
      THEN Raised("OverflowError", OverflowMsg, tbl, sq, lk, 0, TRUE)
    ELSE IF SelectById(tbl, user_id.n) = {}
      THEN Raised("ValueError", NotFoundMsg, tbl, sq, lk, 1, TRUE)
    ELSE IF Truthy(name) /\ (~IsStr(name) \/ Len(Strip(name.s)) = 0)
      THEN Raised("ValueError", NameMsg, tbl, sq, lk, 1, TRUE)
    ELSE IF Truthy(email) /\ (~IsStr(email) \/ ~Contains(email.s, "@"))
      THEN Raised("ValueError", EmailMsg, tbl, sq, lk, 1, TRUE)
    ELSE IF lk # "free"
      THEN Raised("sqlite3.Error", LockedMsg, tbl, sq, lk, 2, TRUE)
    ELSE IF Truthy(email) /\ EmailTaken(tbl, Strip(email.s), user_id.n)
      THEN Raised("ValueError", DuplicateMsg, tbl, sq, "orphan", 2, TRUE)
    ELSE LET tbl2 == UpdateRow(tbl, user_id.n, Truthy(name), Strip(name.s),
                               Truthy(email), Strip(email.s))
             rows == SelectById(tbl2, user_id.n)
         IN IF rows = {}
              THEN Raised("TypeError", NoneTypeMsg, tbl2, sq, lk, 3, TRUE)
              ELSE Returned(<<CHOOSE r \in rows : TRUE>>,
                            "User updated successfully", FALSE, 0, 0, 0,
                            tbl2, sq, lk, 3)

DbDeleteUser(user_id, tbl, sq, lk) ==
    IF BadUserId(user_id) THEN Raised("ValueError", IdMsg, tbl, sq, lk, 0, FALSE)
    ELSE IF user_id.kind = "bigint"
      THEN Raised("OverflowError", OverflowMsg, tbl, sq, lk, 0, TRUE)
    ELSE LET rows == SelectById(tbl, user_id.n)
         IN IF rows = {}
              THEN Raised("ValueError", NotFoundMsg, tbl, sq, lk, 1, TRUE)
            ELSE IF lk # "free"
              THEN Raised("sqlite3.Error", LockedMsg, tbl, sq, lk, 2, TRUE)
            ELSE Returned(<<CHOOSE r \in rows : TRUE>>,
                          "User deleted successfully", FALSE, 0, 0, 0,
                          DeleteRow(tbl, user_id.n), sq, lk, 2)

\* ---------------------------------------------------- tool entry points
\* try: return json.dumps(result)
\* except (ValueError, sqlite3.Error) as e: return {success: False, error: str(e)}
\* Any other exception leaves the entry point.
Wrap(out) ==
    IF out.exc = "none"
      THEN [kind |-> "envelope", success |-> TRUE, data |-> out.data,
            error |-> "", message |-> out.message, paged |-> out.paged,
            total |-> out.total, limit |-> out.limit, offset |-> out.offset]
    ELSE IF out.exc \in {"ValueError", "sqlite3.Error"}
      THEN [kind |-> "envelope", success |-> FALSE, data |-> <<>>,
            error |-> out.msg, message |-> "", paged |-> FALSE,
            total |-> 0, limit |-> 0, offset |-> 0]
    ELSE [kind |-> out.exc, success |-> FALSE, data |-> <<>>,
          error |-> out.msg, message |-> "", paged |-> FALSE,
          total |-> 0, limit |-> 0, offset |-> 0]

NoRet == [kind |-> "none", success |-> FALSE, data |-> <<>>, error |-> "",
          message |-> "", paged |-> FALSE, total |-> 0, limit |-> 0,
          offset |-> 0]

\* ------------------------------------------------------------------ state
VARIABLES
    table,      \* the rows of `users` (committed)
    seq,        \* sqlite_sequence.seq for `users`
    clock,      \* CURRENT_TIMESTAMP
    lock,       \* holder of the database write lock: "free", "orphan" (a
                \* connection that was left open inside a write transaction)
                \* or a caller of SpecConc
    leaked,     \* connections left open by calls that have ended
    last,       \* Spec: the most recent tool call, its arguments and result
    created,    \* Spec: the ids returned by successful creates, in order
    fresh,      \* Spec: the records returned by successful creates whose id
                \* no successful update or delete has been applied to since
    deleted,    \* Spec: ids that a successful delete has removed
    pc,         \* SpecConc: each caller's position inside its call
    loc,        \* SpecConc: each caller's arguments and locals
    res,        \* SpecConc: what each caller's latest call ended with
    met         \* SpecConc: for each caller, how many calls of the other
                \* caller were in flight during its latest call (2: several)

vars == <<table, seq, clock, lock, leaked, last, created, fresh, deleted,
          pc, loc, res, met>>

seqVars == <<last, created, fresh, deleted>>
concVars == <<pc, loc, res, met>>

Callers == {"c1", "c2"}

\* ----------------------------------------------------------- call inputs
NameArgs == {NoneV, Str(<<" ">>), Str(<<"A">>), Str(<<" ", "B">>), IntV(5)}

EmailArgs == {NoneV, Str(<<>>), Str(<<"a">>), Str(<<" ", "a", "@", " ">>),
              Str(<<"A", "@">>)}

IdArgs == {IntV(i) : i \in 0..MaxId} \cup {BigInt, Str(<<"1">>)}

LimitArgs == {NoneV, IntV(0), IntV(1), IntV(MaxLimit), IntV(MaxLimit + 1)}

OffsetArgs == {NoneV, IntV(-5), IntV(0), IntV(1), BigInt}

\* The (name, email) arguments of an update: neither, one, or both fields.
FieldArgs == {<<NoneV, NoneV>>, <<Str(<<"A">>), Str(<<"A", "@">>)>>,
              <<Str(<<" ", "B">>), Str(<<" ", "a", "@", " ">>)>>,
              <<Str(<<" ">>), Str(<<"A", "@">>)>>,
              <<Str(<<"A">>), Str(<<"a">>)>>}
             \cup {<<n, NoneV>> : n \in NameArgs}
             \cup {<<NoneV, e>> : e \in EmailArgs}

NoCall == [op |-> "none", id |-> NoneV, name |-> NoneV, email |-> NoneV,
           limit |-> NoneV, offset |-> NoneV, ret |-> NoRet, stmts |-> 0,
           open |-> 0]

NoLoc == [op |-> "none", id |-> NoneV, name |-> NoneV, email |-> NoneV,
          limit |-> NoneV, offset |-> NoneV, rowid |-> 0, row |-> <<>>,
          pending |-> {}, free |-> FALSE]

Init ==
    /\ table = {}
    /\ seq = 0
    /\ clock = 0
    /\ lock = "free"
    /\ leaked = 0
    /\ last = NoCall
    /\ created = <<>>
    /\ fresh = {}
    /\ deleted = {}
    /\ pc = [c \in Callers |-> "idle"]
    /\ loc = [c \in Callers |-> NoLoc]
    /\ res = [c \in Callers |-> NoRet]
    /\ met = [c \in Callers |-> 0]

\* ------------------------------------------------ Spec: one call per action
\* The effect of a finished method call on the store, and its record.  The
\* server takes a call when the response to the previous one has gone out.
Finish(call, out) ==
    /\ last.op = "none"
    /\ out.seq <= MaxId
    /\ out.leak => leaked < MaxLeaked
    /\ table' = out.table
    /\ seq' = out.seq
    /\ lock' = out.lock
    /\ leaked' = IF out.leak THEN leaked + 1 ELSE leaked
    /\ last' = [call EXCEPT !.ret = Wrap(out), !.stmts = out.stmts,
                            !.open = IF out.leak THEN 1 ELSE 0]
    /\ UNCHANGED <<clock, concVars>>

create_user(name, email) ==
    LET out == DbCreateUser(name, email, table, seq, lock, clock)
    IN /\ Finish([NoCall EXCEPT !.op = "create", !.name = name,
                                !.email = email], out)
       /\ created' = IF out.exc = "none" THEN Append(created, out.data[1].id)
                     ELSE created
       /\ fresh' = IF out.exc = "none" THEN fresh \cup {out.data[1]} ELSE fresh
       /\ UNCHANGED deleted

read_user(user_id) ==
    LET out == DbReadUser(user_id, table, seq, lock)
    IN /\ Finish([NoCall EXCEPT !.op = "read", !.id = user_id], out)
       /\ UNCHANGED <<created, fresh, deleted>>

read_all_users(limit, offset) ==
    LET out == DbReadAllUsers(limit, offset, table, seq, lock)
    IN /\ Finish([NoCall EXCEPT !.op = "list", !.limit = limit,
                                !.offset = offset], out)
       /\ UNCHANGED <<created, fresh, deleted>>

update_user(user_id, name, email) ==
    LET out == DbUpdateUser(user_id, name, email, table, seq, lock)
    IN /\ Finish([NoCall EXCEPT !.op = "update", !.id = user_id,
                                !.name = name, !.email = email], out)
       /\ fresh' = IF out.exc = "none" THEN {r \in fresh : r.id # user_id.n}
                   ELSE fresh
       /\ UNCHANGED <<created, deleted>>

delete_user(user_id) ==
    LET out == DbDeleteUser(user_id, table, seq, lock)
    IN /\ Finish([NoCall EXCEPT !.op = "delete", !.id = user_id], out)
       /\ deleted' = IF out.exc = "none" THEN deleted \cup {user_id.n}
                     ELSE deleted
       /\ fresh' = IF out.exc = "none" THEN {r \in fresh : r.id # user_id.n}
                   ELSE fresh
       /\ UNCHANGED created

\* The response of the latest call goes out to the transport; the server is
\* ready for the next call.
Respond ==
    /\ last.op # "none"
    /\ last' = NoCall
    /\ UNCHANGED <<table, seq, clock, lock, leaked, created, fresh, deleted,
                   concVars>>

\* The wall clock advances between calls.
Tick ==
    /\ last.op = "none"
    /\ clock < MaxClock
    /\ clock' = clock + 1
    /\ UNCHANGED <<table, seq, lock, leaked, seqVars, concVars>>

\* Between calls the garbage collector finalizes a connection that was left
\* open: the connection is closed, and the transaction it was in is rolled
\* back.
Finalize ==
    /\ last.op = "none"
    /\ leaked > 0
    /\ leaked' = leaked - 1
    /\ \/ lock = "orphan" /\ lock' = "free"
       \/ (lock = "orphan" => leaked > 1) /\ lock' = lock
    /\ UNCHANGED <<table, seq, clock, seqVars, concVars>>

Next ==
    \/ \E name \in NameArgs, email \in EmailArgs : create_user(name, email)
    \/ \E user_id \in IdArgs : read_user(user_id)
    \/ \E limit \in LimitArgs, offset \in OffsetArgs :
            read_all_users(limit, offset)
    \/ \E user_id \in IdArgs, f \in FieldArgs :
            update_user(user_id, f[1], f[2])
    \/ \E user_id \in IdArgs : delete_user(user_id)
    \/ Respond
    \/ Tick
    \/ Finalize

Spec == Init /\ [][Next]_vars

\* --------------------------------------- SpecConc: two interleaved callers
\* Each caller runs one call at a time on a connection of its own; a step is
\* one storage statement together with the Python code that follows it up to
\* the next statement.  A write statement starts a transaction and takes the
\* database write lock, commit() publishes the transaction and releases it.
\* While another caller's transaction holds the lock the statement waits;
\* when an orphan connection holds it the wait ends in "database is locked".
ConcNameArgs == {Str(<<"A">>)}
ConcEmailArgs == {Str(<<"a", "@">>), Str(<<" ", "b", "@">>)}
ConcIdArgs == {IntV(i) : i \in 1..MaxConcId}
\* update_user is called with the email alone or with the name alone
ConcFieldArgs == {<<NoneV, e>> : e \in ConcEmailArgs}
                   \cup {<<n, NoneV>> : n \in ConcNameArgs}

Other(c) == CHOOSE d \in Callers : d # c

Exc(e, m) == Wrap(Raised(e, m, {}, 0, "free", 0, FALSE))
Ok(d, m) == Wrap(Returned(d, m, FALSE, 0, 0, 0, {}, 0, "free", 0))
OkPage(d, tot, lim, off) == Wrap(Returned(d, "", TRUE, tot, lim, off, {}, 0, "free", 0))

\* The call of caller c ends with response r; lf: its connection stays open.
End(c, r, lf) ==
    /\ lf => leaked < MaxLeaked
    /\ res' = [res EXCEPT ![c] = r]
    /\ pc' = [pc EXCEPT ![c] = "done"]
    /\ leaked' = IF lf THEN leaked + 1 ELSE leaked
    /\ loc' = [loc EXCEPT ![c].row = <<>>, ![c].pending = {}, ![c].rowid = 0]

\* A caller enters a tool entry point: the checks the method makes before it
\* opens its connection (msg: the text of the ValueError, "" when they pass),
\* then get_connection().
Start(c, call, msg, first) ==
    /\ pc[c] = "idle"
    /\ loc' = [loc EXCEPT ![c] = call]
    /\ met' = IF pc[Other(c)] \in {"idle", "done"}
                THEN [met EXCEPT ![c] = 0]
                ELSE [met EXCEPT ![c] = 1,
                                 ![Other(c)] = IF met[Other(c)] = 0 THEN 1 ELSE 2]
    /\ IF msg # ""
         THEN /\ res' = [res EXCEPT ![c] = Exc("ValueError", msg)]
              /\ pc' = [pc EXCEPT ![c] = "done"]
         ELSE /\ res' = [res EXCEPT ![c] = NoRet]
              /\ pc' = [pc EXCEPT ![c] = first]
    /\ UNCHANGED <<table, seq, clock, lock, leaked, seqVars>>

EmailFree(email) == IsStr(email) /\ ~EmailTaken(table, Strip(email.s), 0)

StartCreate(c, name, email) ==
    Start(c, [NoLoc EXCEPT !.op = "create", !.name = name, !.email = email,
                           !.free = EmailFree(email)],
          IF BadName(name) THEN NameMsg
          ELSE IF BadEmail(email) THEN EmailMsg ELSE "", "insert")

StartRead(c, user_id) ==
    Start(c, [NoLoc EXCEPT !.op = "read", !.id = user_id],
          IF BadUserId(user_id) THEN IdMsg ELSE "", "select")

StartList(c, limit, offset) ==
    Start(c, [NoLoc EXCEPT !.op = "list", !.limit = limit, !.offset = offset],
          "", "page")

StartUpdate(c, user_id, name, email) ==
    Start(c, [NoLoc EXCEPT !.op = "update", !.id = user_id, !.name = name,
                           !.email = email, !.free = EmailFree(email)],
          IF BadUserId(user_id) THEN IdMsg
          ELSE IF ~Truthy(name) /\ ~Truthy(email) THEN FieldMsg ELSE "", "check")

StartDelete(c, user_id) ==
    Start(c, [NoLoc EXCEPT !.op = "delete", !.id = user_id],
          IF BadUserId(user_id) THEN IdMsg ELSE "", "check")

\* read_user: SELECT, close, answer
SelectStep(c) ==
    /\ pc[c] = "select"
    /\ LET rows == SelectById(table, loc[c].id.n)
       IN IF rows = {}
            THEN End(c, Exc("ValueError", NotFoundMsg), FALSE)
            ELSE End(c, Ok(<<CHOOSE r \in rows : TRUE>>, ""), FALSE)
    /\ UNCHANGED <<table, seq, clock, lock, met, seqVars>>

\* read_all_users: the page query
PageStep(c) ==
    /\ pc[c] = "page"
    /\ loc' = [loc EXCEPT ![c].row = SelectPage(table, ClampLimit(loc[c].limit),
                                                ClampOffset(loc[c].offset).n)]
    /\ pc' = [pc EXCEPT ![c] = "count"]
    /\ UNCHANGED <<table, seq, clock, lock, leaked, res, met, seqVars>>

\* read_all_users: the count query, close, answer
CountStep(c) ==
    /\ pc[c] = "count"
    /\ End(c, OkPage(loc[c].row, Cardinality(table), ClampLimit(loc[c].limit),
                     ClampOffset(loc[c].offset).n), FALSE)
    /\ UNCHANGED <<table, seq, clock, lock, met, seqVars>>

\* update_user / delete_user: the existence query, then (update) the checks
\* of the supplied fields
CheckStep(c) ==
    /\ pc[c] = "check"
    /\ LET l == loc[c]
           rows == SelectById(table, l.id.n)
       IN IF rows = {}
            THEN End(c, Exc("ValueError", NotFoundMsg), TRUE)
          ELSE IF l.op = "update" /\ Truthy(l.name)
                  /\ (~IsStr(l.name) \/ Len(Strip(l.name.s)) = 0)
            THEN End(c, Exc("ValueError", NameMsg), TRUE)
          ELSE IF l.op = "update" /\ Truthy(l.email)
                  /\ (~IsStr(l.email) \/ ~Contains(l.email.s, "@"))
            THEN End(c, Exc("ValueError", EmailMsg), TRUE)
          ELSE /\ loc' = [loc EXCEPT ![c].row = <<CHOOSE r \in rows : TRUE>>]
               /\ pc' = [pc EXCEPT ![c] = "write"]
               /\ UNCHANGED <<res, leaked>>
    /\ UNCHANGED <<table, seq, clock, lock, met, seqVars>>

\* the INSERT, UPDATE or DELETE statement
WriteStep(c) ==
    /\ pc[c] \in {"insert", "write"}
    /\ lock \in {"free", "orphan"}
    /\ LET l == loc[c]
           em == Strip(l.email.s)
       IN IF lock = "orphan"
            THEN /\ End(c, Exc("sqlite3.Error", LockedMsg), TRUE)
                 /\ UNCHANGED lock
          ELSE IF l.op = "create" /\ EmailTaken(table, em, 0)
            THEN /\ End(c, Exc("ValueError", DuplicateMsg), TRUE)
                 /\ lock' = "orphan"
          ELSE IF l.op = "update" /\ Truthy(l.email)
                  /\ EmailTaken(table, em, l.id.n)
            THEN /\ End(c, Exc("ValueError", DuplicateMsg), TRUE)
                 /\ lock' = "orphan"
          ELSE /\ l.op = "create" => NextRowid(table, seq) <= MaxConcId
               /\ lock' = c
               /\ loc' = [loc EXCEPT ![c].pending =
                            CASE l.op = "create" ->
                                   InsertRow(table, seq, Strip(l.name.s), em, clock)
                              [] l.op = "update" ->
                                   UpdateRow(table, l.id.n, Truthy(l.name),
                                             Strip(l.name.s), Truthy(l.email), em)
                              [] OTHER -> DeleteRow(table, l.id.n),
                                     ![c].rowid =
                                        IF l.op = "create"
                                          THEN NextRowid(table, seq) ELSE l.id.n]
               /\ pc' = [pc EXCEPT ![c] = "commit"]
               /\ UNCHANGED <<res, leaked>>
    /\ UNCHANGED <<table, seq, clock, met, seqVars>>

\* conn.commit(); delete_user then closes and answers
CommitStep(c) ==
    /\ pc[c] = "commit"
    /\ table' = loc[c].pending
    /\ seq' = IF loc[c].op = "create" THEN loc[c].rowid ELSE seq
    /\ lock' = "free"
    /\ IF loc[c].op = "delete"
         THEN End(c, Ok(loc[c].row, "User deleted successfully"), FALSE)
         ELSE pc' = [pc EXCEPT ![c] = "readback"] /\ UNCHANGED <<res, leaked, loc>>
    /\ UNCHANGED <<clock, met, seqVars>>

\* create_user / update_user: the query that fetches the row to return
ReadBackStep(c) ==
    /\ pc[c] = "readback"
    /\ LET rows == SelectById(table, loc[c].rowid)
       IN IF rows = {}
            THEN End(c, Exc("TypeError", NoneTypeMsg), TRUE)
            ELSE End(c, Ok(<<CHOOSE r \in rows : TRUE>>,
                           IF loc[c].op = "create"
                             THEN "User created successfully"
                             ELSE "User updated successfully"), FALSE)
    /\ UNCHANGED <<table, seq, clock, lock, met, seqVars>>

\* The response of caller c's call goes out; c may call again.
ReturnStep(c) ==
    /\ pc[c] = "done"
    /\ pc' = [pc EXCEPT ![c] = "idle"]
    /\ loc' = [loc EXCEPT ![c] = NoLoc]
    /\ res' = [res EXCEPT ![c] = NoRet]
    /\ UNCHANGED <<table, seq, clock, lock, leaked, met, seqVars>>

NextConc ==
    \/ \E c \in Callers, name \in ConcNameArgs, email \in ConcEmailArgs :
            StartCreate(c, name, email)
    \/ \E c \in Callers, user_id \in ConcIdArgs : StartRead(c, user_id)
    \/ \E c \in Callers : StartList(c, IntV(1), IntV(0))
    \/ \E c \in Callers, user_id \in ConcIdArgs, f \in ConcFieldArgs :
            StartUpdate(c, user_id, f[1], f[2])
    \/ \E c \in Callers, user_id \in ConcIdArgs : StartDelete(c, user_id)
    \/ \E c \in Callers : SelectStep(c)
    \/ \E c \in Callers : PageStep(c)
    \/ \E c \in Callers : CountStep(c)
    \/ \E c \in Callers : CheckStep(c)
    \/ \E c \in Callers : WriteStep(c)
    \/ \E c \in Callers : CommitStep(c)
    \/ \E c \in Callers : ReadBackStep(c)
    \/ \E c \in Callers : ReturnStep(c)
    \/ Finalize

SpecConc == Init /\ [][NextConc]_vars

\* ================================================================ claims
\* The error kinds of the envelope, told apart by the message text.
IsValidationError(r) ==
    r.kind = "envelope" /\ ~r.success /\ r.error \in {NameMsg, EmailMsg, IdMsg, FieldMsg}
IsNotFoundError(r) == r.kind = "envelope" /\ ~r.success /\ r.error = NotFoundMsg
IsDuplicateError(r) == r.kind = "envelope" /\ ~r.success /\ r.error = DuplicateMsg

\* t is s without its leading and trailing blanks
TrimOf(s, t) ==
    \E i \in 1..(Len(s) + 1), j \in 0..Len(s) :
        /\ t = SubSeq(s, i, j)
        /\ \A k \in 1..(i - 1) : s[k] = " "
        /\ \A k \in (j + 1)..Len(s) : s[k] = " "
        /\ t = <<>> \/ (t[1] # " " /\ t[Len(t)] # " ")

\* the step that carries out a tool call of kind op
CallStep(op) == last.op = "none" /\ last'.op = op

EmailsUnique(tbl) == \A r, q \in tbl : r.email = q.email => r = q

\* a well-formed positive id that fits the table's INTEGER column
GoodId(x) == x.kind = "int" /\ x.n > 0

\* the call l is a create, or an update of an existing record, with acceptable
\* arguments whose trimmed email is held by a (different) record of tbl
CollidingCall(l, tbl) ==
    /\ IsStr(l.email)
    /\ \E t \in {r.email : r \in tbl} : TrimOf(l.email.s, t) /\
         \/ l.op = "create" /\ ~BadName(l.name)
         \/ /\ l.op = "update" /\ GoodId(l.id)
            /\ l.name = NoneV \/ ~BadName(l.name)
            /\ \E r \in tbl : r.id = l.id.n
            /\ \E r \in tbl : r.id # l.id.n /\ r.email = t

C2_IdsNeverReused ==
    \A i \in 1..Len(created) :
        created[i] > 0 /\ \A j \in 1..(i - 1) : created[j] < created[i]

\* C2 witness: a create succeeded after an earlier id had been deleted and
\* after a failed call had left its connection behind.
C2_Witness ==
    /\ last.op = "create" /\ last.ret.success
    /\ Len(created) >= 2
    /\ \E i \in 1..(Len(created) - 1) : created[i] \in deleted
    /\ lock = "free" /\ leaked > 0

WasCreated(x) == x.kind = "int" /\ \E i \in 1..Len(created) : created[i] = x.n

\* C3: get(id) yields NotFoundError for an id that no successful create has
\* returned and for an id that a successful delete has removed; it succeeds
\* only for an id that create returned and delete has not removed.
C3_GetNotFound ==
    (last.op = "read" /\ IsInt(last.id) /\ ~IntLe(last.id, 0)) =>
        /\ (~WasCreated(last.id) \/ last.id.n \in deleted)
              => IsNotFoundError(last.ret)
        /\ last.ret.success => WasCreated(last.id) /\ last.id.n \notin deleted

\* the page the claim describes: the rows in descending id order, the first
\* off skipped, at most lim taken
RefPage(tbl, lim, off, page) ==
    /\ Len(page) = IF Cardinality(tbl) - off < 0 THEN 0
                   ELSE Min2(lim, Cardinality(tbl) - off)
    /\ \A k \in 1..Len(page) :
          /\ page[k] \in tbl
          /\ Cardinality({r \in tbl : r.id > page[k].id}) = off + k - 1

RefLimit(x) == IF x.kind = "int" /\ 0 < x.n /\ x.n <= 1000 THEN x.n ELSE 100

\* C4: list never fails, leaves the table unchanged and returns the reference
\* page with total = the number of rows and the clamped limit and offset;
\* list(0, -5) answers as list(100, 0) does.
C4_ListMatchesReference ==
    /\ [][CallStep("list") =>
            /\ table' = table
            /\ last'.ret.success
            /\ last'.ret.total = Cardinality(table)
            /\ last'.ret.limit = RefLimit(last'.limit)
            /\ IF IsInt(last'.offset) /\ ~IntLe(last'.offset, -1)
                 THEN /\ last'.offset.kind = "int" => last'.ret.offset = last'.offset.n
                      /\ last'.offset.kind = "int" =>
                            RefPage(table, RefLimit(last'.limit), last'.offset.n,
                                    last'.ret.data)
                      /\ last'.offset.kind = "bigint" => last'.ret.data = <<>>
                 ELSE /\ last'.ret.offset = 0
                      /\ RefPage(table, RefLimit(last'.limit), 0, last'.ret.data)]_vars
    /\ [](Wrap(DbReadAllUsers(IntV(0), IntV(-5), table, seq, lock))
            = Wrap(DbReadAllUsers(IntV(100), IntV(0), table, seq, lock)))

\* C5: a successful create returns the supplied name and email trimmed, and a
\* get of the returned id, before any update or delete of that id, returns
\* the very record that create returned.
C5_CreateGetRoundTrip ==
    /\ (last.op = "create" /\ last.ret.success) =>
          /\ TrimOf(last.name.s, last.ret.data[1].name)
          /\ TrimOf(last.email.s, last.ret.data[1].email)
    /\ \A r \in fresh :
          (last.op = "read" /\ last.id = IntV(r.id)) =>
              last.ret.success /\ last.ret.data = <<r>>

\* C5 witness: a get answered for a record that was created from padded
\* arguments and has not been updated or deleted since.
C5_Witness ==
    /\ last.op = "read" /\ last.ret.success
    /\ \E r \in fresh : /\ r.id = last.id.n
                        /\ r.name = <<"B">>
                        /\ r.email = <<"a", "@">>

\* C6: a successful update changes only the supplied fields of record id: an
\* unsupplied field, the id and created_at keep their values, every other
\* record is unchanged, and the returned record is the stored one.
C6_UpdateFrame ==
    [][(CallStep("update") /\ last'.ret.success) =>
          /\ {r \in table' : r.id # last'.id.n} = {r \in table : r.id # last'.id.n}
          /\ \E old \in table, new \in table' :
                /\ old.id = last'.id.n /\ new.id = last'.id.n
                /\ new.created_at = old.created_at
                /\ last'.name = NoneV => new.name = old.name
                /\ last'.email = NoneV => new.email = old.email
                /\ last'.ret.data = <<new>>
                /\ table' = {r \in table : r.id # last'.id.n} \cup {new}]_vars

\* C6 witness: an update of the email alone succeeded on an older record
\* while another record was in the table.
C6_Witness ==
    /\ last.op = "update" /\ last.ret.success
    /\ last.name = NoneV /\ last.email # NoneV
    /\ Cardinality(table) >= 2
    /\ \E r \in table : r.id = last.id.n /\ r.created_at < clock

\* C7: a call that is rejected with a ValidationError has executed no storage
\* statement.
C7_ValidationBeforeStorage ==
    (last.op # "none" /\ IsValidationError(last.ret)) => last.stmts = 0

\* C8: every call has closed its connection when it returns, so no
\* connection is open after any sequence of calls.
C8_ConnectionsReleased == last.open = 0 /\ leaked = 0

\* C9: every call of an entry point ends by returning a success or a failure
\* envelope, also when another caller's statements fall between its own.
C9_NoErrorEscapes == \A c \in Callers : pc[c] = "done" => res[c].kind = "envelope"

\* caller c's latest call is a create or an update with acceptable arguments
\* that reached the storage layer and found its target
TargetsEmail(c) ==
    /\ loc[c].op \in {"create", "update"}
    /\ IsStr(loc[c].email)
    /\ ~IsValidationError(res[c]) /\ ~IsNotFoundError(res[c])

\* the record caller c's latest call wrote, or tried to write: the target of
\* an update, the row a successful create inserted (0: none)
RecordOf(c) ==
    IF loc[c].op = "update" THEN loc[c].id.n
    ELSE IF res[c].kind = "envelope" /\ res[c].success THEN res[c].data[1].id
    ELSE 0

====
